---- MODULE Spec2Model ----
(***************************************************************************)
(* ScreenshotConverterPlugin.py: the Screenshot projection, the event      *)
(* handler and the conversion worker thread, with the host (settings,      *)
(* Location projection, event manager), the file system, the clock and the *)
(* image library as the environment the plugin calls.                      *)
(*                                                                         *)
(* A Python str is a sequence of one-character strings, so that `in`,      *)
(* split, lstrip, replace, lower and upper are computed character by       *)
(* character.  Paths follow pathlib on Windows, the platform the plugin    *)
(* targets (%USERPROFILE%, backslashes in the journal's Filename): both    *)
(* "\" and "/" separate segments and str() joins with "\".  Drive letters  *)
(* and symbolic links are not modelled: a path is rooted or relative.      *)
(***************************************************************************)
EXTENDS Integers, Sequences, FiniteSets, TLC

VARIABLES plugin_helper, nEvents, last, threads, projected, fs, clock

vars == <<plugin_helper, nEvents, last, threads, projected, fs, clock>>

\* ---------------------------------------------------------------- bounds

\* Host notifications dispatched in one run.
MaxEvents == 2

\* Seconds the clock may advance past the first timestamp.
MaxClock == 1

\* ---------------------------------------------------------------- str

\* sub occurs in s at index i.
StartsAt(s, sub, i) ==
    /\ i >= 1
    /\ i + Len(sub) - 1 <= Len(s)
    /\ SubSeq(s, i, i + Len(sub) - 1) = sub

\* Python: sub in s
Contains(s, sub) == \E i \in 1..Len(s) : StartsAt(s, sub, i)

\* Index of the first occurrence of sub in s (s must contain it).
FindFirst(s, sub) ==
    CHOOSE i \in 1..Len(s) :
        StartsAt(s, sub, i) /\ \A j \in 1..(i - 1) : ~StartsAt(s, sub, j)

\* Python: s.split(sub)[-1], the text after the last occurrence found by a
\* left-to-right scan (all of s when sub does not occur).
RECURSIVE SplitLast(_, _)
SplitLast(s, sub) ==
    IF Contains(s, sub)
    THEN SplitLast(SubSeq(s, FindFirst(s, sub) + Len(sub), Len(s)), sub)
    ELSE s

\* Python: s.lstrip(chars)
RECURSIVE LStrip(_, _)
LStrip(s, chars) ==
    IF s # <<>> /\ Head(s) \in chars THEN LStrip(Tail(s), chars) ELSE s

\* Python: s.replace(a, b) for one-character a and b.
ReplaceChar(s, a, b) == [i \in 1..Len(s) |-> IF s[i] = a THEN b ELSE s[i]]

Lowers == <<"a", "b", "c", "d", "e", "f", "g", "h", "i", "j", "k", "l", "m", "n", "o", "p", "q", "r", "s", "t", "u", "v", "w", "x", "y", "z">>
Uppers == <<"A", "B", "C", "D", "E", "F", "G", "H", "I", "J", "K", "L", "M", "N", "O", "P", "Q", "R", "S", "T", "U", "V", "W", "X", "Y", "Z">>

IndexIn(c, alphabet) ==
    IF \E i \in 1..Len(alphabet) : alphabet[i] = c
    THEN CHOOSE i \in 1..Len(alphabet) : alphabet[i] = c
    ELSE 0

\* Python: s.lower()
Lower(s) ==
    [i \in 1..Len(s) |->
        IF IndexIn(s[i], Uppers) > 0 THEN Lowers[IndexIn(s[i], Uppers)] ELSE s[i]]

\* Python: s.upper()
Upper(s) ==
    [i \in 1..Len(s) |->
        IF IndexIn(s[i], Lowers) > 0 THEN Uppers[IndexIn(s[i], Lowers)] ELSE s[i]]

\* Index of the last c in s, 0 when there is none (Python: s.rfind(c) + 1).
RFind(s, c) ==
    IF \E i \in 1..Len(s) : s[i] = c
    THEN CHOOSE i \in 1..Len(s) : s[i] = c /\ \A j \in (i + 1)..Len(s) : s[j] # c
    ELSE 0

\* ---------------------------------------------------------------- os.path

\* The environment of the process: one variable is set.
EnvName == <<"U", "S", "E", "R", "P", "R", "O", "F", "I", "L", "E">>
EnvValue == <<"\\", "U", "s", "e", "r", "s", "\\", "c", "m", "d", "r">>

\* os.path.expandvars (ntpath) for %name% references: a known name is
\* replaced by its value, an unknown one and an unpaired "%" stay as they
\* are.  "$" references do not occur in the inputs of this model.
RECURSIVE ExpandVars(_)
ExpandVars(s) ==
    IF ~Contains(s, <<"%">>) THEN s
    ELSE LET open == FindFirst(s, <<"%">>)
             before == SubSeq(s, 1, open - 1)
             rest == SubSeq(s, open + 1, Len(s))
         IN  IF ~Contains(rest, <<"%">>) THEN s
             ELSE LET close == FindFirst(rest, <<"%">>)
                      name == SubSeq(rest, 1, close - 1)
                      after == SubSeq(rest, close + 1, Len(rest))
                  IN  before
                          \o (IF name = EnvName THEN EnvValue
                              ELSE <<"%">> \o name \o <<"%">>)
                          \o ExpandVars(after)

\* ---------------------------------------------------------------- pathlib

Seps == {"\\", "/"}

\* The segments of s between separators, empty ones included.
RECURSIVE Segments(_)
Segments(s) ==
    IF \E i \in 1..Len(s) : s[i] \in Seps
    THEN LET i == CHOOSE k \in 1..Len(s) :
                      s[k] \in Seps /\ \A j \in 1..(k - 1) : s[j] \notin Seps
         IN  <<SubSeq(s, 1, i - 1)>> \o Segments(SubSeq(s, i + 1, Len(s)))
    ELSE <<s>>

\* Path(s): rooted when s starts with a separator; empty and "." segments drop.
ParsePath(s) ==
    [root  |-> s # <<>> /\ s[1] \in Seps,
     parts |-> SelectSeq(Segments(s), LAMBDA g : g # <<>> /\ g # <<".">>)]

\* p / s: a rooted right operand replaces the left one.
JoinPath(p, s) ==
    LET q == ParsePath(s)
    IN  IF q.root THEN q ELSE [root |-> p.root, parts |-> p.parts \o q.parts]

\* The home directory, from USERPROFILE.
Home == ParsePath(EnvValue)

\* The working directory of the host process.
Cwd == ParsePath(<<"\\", "C", "O", "V", "A", "S">>)

\* Path.expanduser(): a leading "~" segment becomes the home directory.
ExpandUser(p) ==
    IF ~p.root /\ p.parts # <<>> /\ Head(p.parts) = <<"~">>
    THEN [root |-> Home.root, parts |-> Home.parts \o Tail(p.parts)]
    ELSE p

\* ".." segments removed together with the segment before them.
RECURSIVE Collapse(_, _)
Collapse(done, todo) ==
    IF todo = <<>> THEN done
    ELSE IF Head(todo) = <<".", ".">>
         THEN Collapse(IF done = <<>> THEN <<>> ELSE SubSeq(done, 1, Len(done) - 1),
                       Tail(todo))
         ELSE Collapse(Append(done, Head(todo)), Tail(todo))

\* Path.resolve(): made absolute against the working directory, normalised.
Resolve(p) ==
    [root  |-> TRUE,
     parts |-> Collapse(<<>>, IF p.root THEN p.parts ELSE Cwd.parts \o p.parts)]

RECURSIVE JoinParts(_)
JoinParts(parts) ==
    IF parts = <<>> THEN <<>>
    ELSE IF Len(parts) = 1 THEN parts[1]
    ELSE parts[1] \o <<"\\">> \o JoinParts(Tail(parts))

\* str(p)
PathStr(p) == (IF p.root THEN <<"\\">> ELSE <<>>) \o JoinParts(p.parts)

\* p.parent
Parent(p) ==
    IF p.parts = <<>> THEN p
    ELSE [root |-> p.root, parts |-> SubSeq(p.parts, 1, Len(p.parts) - 1)]

\* p.name
PathName(p) == IF p.parts = <<>> THEN <<>> ELSE p.parts[Len(p.parts)]

\* p.stem: the name without its last suffix.
Stem(p) ==
    LET name == PathName(p)
        dot == RFind(name, ".")
    IN  IF dot > 1 /\ dot < Len(name) THEN SubSeq(name, 1, dot - 1) ELSE name

\* ---------------------------------------------------------------- values

\* An optional dictionary or settings value: absent (None), a str, or a
\* value of another type (a number).
NoValue == [t |-> "none", v |-> <<>>]
StrValue(s) == [t |-> "str", v |-> s]
IntValue == [t |-> "int", v |-> <<>>]

\* Python truthiness of such a value (the number is non-zero).
Truthy(x) == x.t = "int" \/ (x.t = "str" /\ x.v # <<>>)

NoPath == [root |-> FALSE, parts |-> <<>>]

\* The path alias the game writes into the journal's Filename.
Alias == <<"E", "D", "_", "P", "i", "c", "t", "u", "r", "e", "s">>

\* The screenshot_path default of the settings schema and of the handler.
DefaultScreenshotPath == <<"%", "U", "S", "E", "R", "P", "R", "O", "F", "I", "L", "E", "%", "\\", "P", "i", "c", "t", "u", "r", "e", "s", "\\", "F", "r", "o", "n", "t", "i", "e", "r", " ", "D", "e", "v", "e", "l", "o", "p", "m", "e", "n", "t", "s", "\\", "E", "l", "i", "t", "e", " ", "D", "a", "n", "g", "e", "r", "o", "u", "s">>

\* The target_format default.
DefaultFormat == <<"p", "n", "g">>

\* The formats PIL registers a save handler for (Image.SAVE); "JPG" is a
\* file extension of the JPEG plugin, not a registered format name.
PILSaveFormats == {<<"P", "N", "G">>, <<"J", "P", "E", "G">>, <<"B", "M", "P">>, <<"G", "I", "F">>, <<"T", "I", "F", "F">>}

\* ---------------------------------------------------------------- disk

\* The folder the game saves screenshots to.
ShotDir == ParsePath(ExpandVars(DefaultScreenshotPath))

\* The directories that exist.
Dirs ==
    {ShotDir, Parent(ShotDir), Home, Cwd, ParsePath(<<"\\", "S", "h", "o", "t", "s">>),
     ParsePath(<<"\\", "S", "h", "o", "t", "s", "\\", "E", "D", "_", "P", "i", "c", "t", "u", "r", "e", "s", "_", "o", "l", "d">>)}

File1 == JoinPath(ShotDir, <<"S", "c", "r", "e", "e", "n", "s", "h", "o", "t", "_", "0", "0", "0", "1", ".", "b", "m", "p">>)
File2 == JoinPath(ShotDir, <<"H", "i", "g", "h", "R", "e", "s", "S", "c", "r", "e", "e", "n", "s", "h", "o", "t", "_", "0", "0", "0", "1", ".", "b", "m", "p">>)
File3 == JoinPath(ShotDir, <<"S", "c", "r", "e", "e", "n", "s", "h", "o", "t", "_", "0", "0", "0", "2", ".", "b", "m", "p">>)
File4 == JoinPath(ShotDir, <<"S", "c", "r", "e", "e", "n", "s", "h", "o", "t", "_", "0", "0", "0", "3", ".", "b", "m", "p">>)
File5 == ParsePath(<<"\\", "S", "h", "o", "t", "s", "\\", "E", "D", "_", "P", "i", "c", "t", "u", "r", "e", "s", "_", "o", "l", "d", "\\", "S", "c", "r", "e", "e", "n", "s", "h", "o", "t", "_", "0", "0", "0", "1", ".", "b", "m", "p">>)

Bitmap == <<"B", "M", "P">>
NotAnImage == <<"?">>

\* The files on disk when the plugin is loaded: two bitmaps, a file that is
\* no image (a truncated capture), a read-only bitmap, and a bitmap kept in
\* an archive folder.  img names the picture a file holds, kind its encoding.
InitialFiles ==
    (PathStr(File1) :> [img |-> 1, kind |-> Bitmap, readonly |-> FALSE]) @@
    (PathStr(File2) :> [img |-> 2, kind |-> Bitmap, readonly |-> FALSE]) @@
    (PathStr(File3) :> [img |-> 3, kind |-> NotAnImage, readonly |-> FALSE]) @@
    (PathStr(File4) :> [img |-> 4, kind |-> Bitmap, readonly |-> TRUE]) @@
    (PathStr(File5) :> [img |-> 5, kind |-> Bitmap, readonly |-> FALSE])

IsFile(files, p) == PathStr(p) \in DOMAIN files

\* Path.exists()
Exists(files, p) == IsFile(files, p) \/ p \in Dirs

\* ---------------------------------------------------------------- events

\* ProjectedEvent contents.  A message is its fixed text and the value
\* formatted into it.
Message(text, arg) == [text |-> text, arg |-> arg]

ErrorEvent(text, arg) ==
    [event |-> "ScreenshotError", message |-> Message(text, arg)]

ErrorEventWithPath(text, arg, path) ==
    [event |-> "ScreenshotError", message |-> Message(text, arg), path |-> path]

ConvertedEvent(bmp_path, new_path, system) ==
    [event |-> "ScreenshotConverted", originalPath |-> PathStr(bmp_path),
     newPath |-> PathStr(new_path), system |-> system]

\* What one call of handle_screenshot_event did: the list it returned or the
\* exception it raised, the thread it started, what it logged and which
\* file-system calls it made.
HandlerResult(raised, returned, start, dir, path, system, logs, io) ==
    [raised |-> raised, returned |-> returned, start |-> start,
     screenshot_dir |-> dir, bmp_path |-> path, current_system |-> system,
     logs |-> logs, io |-> io]

\* _get_current_star_system
GetCurrentStarSystem(helper, location) ==
    IF helper /\ location.projection
    THEN IF location.StarSystem.t = "str" THEN location.StarSystem.v ELSE <<"U", "n", "k", "n", "o", "w", "n">>
    ELSE <<"U", "n", "k", "n", "o", "w", "n">>

\* The path normalisation of handle_screenshot_event: the alias replaced by
\* the configured directory, then expanduser().resolve().
NormalizePath(screenshot_dir, raw_filename) ==
    LET bmp_path ==
            IF Contains(raw_filename, Alias)
            THEN JoinPath(screenshot_dir, LStrip(SplitLast(raw_filename, Alias), Seps))
            ELSE ParsePath(raw_filename)
    IN  Resolve(ExpandUser(bmp_path))

\* handle_screenshot_event
HandleScreenshotEvent(content, helper, setting, files, location) ==
    LET filename == content.Filename
    IN  IF ~Truthy(filename)
        THEN HandlerResult(FALSE,
                 <<ErrorEvent("Screenshot event missing Filename", <<>>)>>,
                 FALSE, NoPath, NoPath, <<>>, {"warn"}, {})
        ELSE IF ~helper
        THEN HandlerResult(FALSE, <<ErrorEvent("Plugin helper not ready", <<>>)>>,
                 FALSE, NoPath, NoPath, <<>>, {"error"}, {})
        ELSE IF filename.t # "str"
        THEN \* os.path.expandvars(filename) raises TypeError
             HandlerResult(TRUE, <<>>, FALSE, NoPath, NoPath, <<>>, {}, {})
        ELSE
        LET screenshot_path_setting ==
                IF Truthy(setting) THEN setting.v ELSE DefaultScreenshotPath
            screenshot_dir == ParsePath(ExpandVars(screenshot_path_setting))
            bmp_path == NormalizePath(screenshot_dir, ExpandVars(filename.v))
        IN  IF ~Exists(files, bmp_path)
            THEN HandlerResult(FALSE,
                     <<ErrorEvent("Screenshot file not found: ", PathStr(bmp_path))>>,
                     FALSE, screenshot_dir, bmp_path, <<>>, {"info", "error"},
                     {"resolve", "exists"})
            ELSE HandlerResult(FALSE, <<>>, TRUE, screenshot_dir, bmp_path,
                     GetCurrentStarSystem(helper, location), {"info"},
                     {"resolve", "exists"})

\* A notification the projection does not act on.
Ignored == HandlerResult(FALSE, <<>>, FALSE, NoPath, NoPath, <<>>, {}, {})

\* The try/except of ScreenshotProjection.process around the handler: an
\* exception is logged and nothing is returned.  The field raised stays TRUE
\* when handle_screenshot_event raised and process caught it.
CatchAll(r) ==
    IF r.raised
    THEN [r EXCEPT !.returned = <<>>, !.logs = @ \cup {"error"}]
    ELSE r

ProcessResultNoFilter(content, helper, setting, files, location) ==
    CatchAll(HandleScreenshotEvent(content, helper, setting, files, location))

\* ScreenshotProjection.process: what the host gets back for a notification.
ProcessResult(content, helper, setting, files, location) ==
    IF ~content.dict THEN Ignored
    ELSE IF content.event # "Screenshot" THEN Ignored
    ELSE CatchAll(HandleScreenshotEvent(content, helper, setting, files, location))

\* ---------------------------------------------------------------- inputs

Content(dict, event, filename) ==
    [dict |-> dict, event |-> event, Filename |-> filename]

AliasPrefix == <<"\\">> \o Alias \o <<"\\">>

\* The notifications the host dispatches to the projection.
Contents ==
    { Content(FALSE, "", NoValue),
      Content(TRUE, "FSDJump", StrValue(AliasPrefix \o <<"S", "c", "r", "e", "e", "n", "s", "h", "o", "t", "_", "0", "0", "0", "1", ".", "b", "m", "p">>)),
      Content(TRUE, "Screenshot", NoValue),
      Content(TRUE, "Screenshot", StrValue(<<>>)),
      Content(TRUE, "Screenshot", IntValue),
      Content(TRUE, "Screenshot", StrValue(AliasPrefix \o <<"S", "c", "r", "e", "e", "n", "s", "h", "o", "t", "_", "0", "0", "0", "1", ".", "b", "m", "p">>)),
      Content(TRUE, "Screenshot", StrValue(AliasPrefix \o <<"H", "i", "g", "h", "R", "e", "s", "S", "c", "r", "e", "e", "n", "s", "h", "o", "t", "_", "0", "0", "0", "1", ".", "b", "m", "p">>)),
      Content(TRUE, "Screenshot", StrValue(AliasPrefix \o <<"S", "c", "r", "e", "e", "n", "s", "h", "o", "t", "_", "0", "0", "0", "2", ".", "b", "m", "p">>)),
      Content(TRUE, "Screenshot", StrValue(AliasPrefix \o <<"S", "c", "r", "e", "e", "n", "s", "h", "o", "t", "_", "0", "0", "0", "3", ".", "b", "m", "p">>)),
      Content(TRUE, "Screenshot", StrValue(AliasPrefix \o <<"S", "c", "r", "e", "e", "n", "s", "h", "o", "t", "_", "0", "0", "0", "9", ".", "b", "m", "p">>)),
      Content(TRUE, "Screenshot", StrValue(<<"P", "i", "c", "t", "u", "r", "e", "s", "\\", ".", ".", "\\", "S", "c", "r", "e", "e", "n", "s", "h", "o", "t", "_", "0", "0", "0", "1", ".", "b", "m", "p">>)),
      Content(TRUE, "Screenshot",
          StrValue(<<"~", "/", "P", "i", "c", "t", "u", "r", "e", "s", "/", "F", "r", "o", "n", "t", "i", "e", "r", " ", "D", "e", "v", "e", "l", "o", "p", "m", "e", "n", "t", "s", "/", "E", "l", "i", "t", "e", " ", "D", "a", "n", "g", "e", "r", "o", "u", "s", "/", "S", "c", "r", "e", "e", "n", "s", "h", "o", "t", "_", "0", "0", "0", "1", ".", "b", "m", "p">>)),
      Content(TRUE, "Screenshot",
          StrValue(<<"\\", "S", "h", "o", "t", "s", "\\", "E", "D", "_", "P", "i", "c", "t", "u", "r", "e", "s", "_", "o", "l", "d", "\\", "S", "c", "r", "e", "e", "n", "s", "h", "o", "t", "_", "0", "0", "0", "1", ".", "b", "m", "p">>)) }

\* The values the host returns for the screenshot_path setting.
PathSettings == {NoValue, StrValue(<<"\\", "S", "h", "o", "t", "s">>)}

\* The values the host returns for the target_format setting: unset, or one
\* of the two options of the settings schema.
FormatSettings == {NoValue, StrValue(<<"p", "n", "g">>), StrValue(<<"j", "p", "g">>)}

\* The Location projection as the handler finds it.
Locations ==
    { [projection |-> FALSE, StarSystem |-> NoValue],
      [projection |-> TRUE, StarSystem |-> NoValue],
      [projection |-> TRUE, StarSystem |-> StrValue(<<"C", "o", "l", " ", "2", "8", "5">>)],
      [projection |-> TRUE, StarSystem |-> StrValue(<<"H", "I", "P", "/", "2", "2">>)] }

\* ---------------------------------------------------------------- state

\* plugin_helper: self.plugin_helper is set.
\* nEvents:       notifications dispatched so far; the n-th has id n.
\* last:          the latest call of process: its notification and result.
\* threads:       the worker threads by the id of their notification.
\* projected:     the events the workers added through the event manager.
\* fs:            the files on disk.
\* clock:         seconds since the first timestamp.

NoCall ==
    [id |-> 0, content |-> Content(FALSE, "", NoValue), helper |-> FALSE,
     result |-> Ignored]

\* A thread as threading.Thread(...).start() creates it, before its first
\* statement.  img is the picture Image.open read (0: none yet); returned is
\* what process returned for the thread's notification.
NewThread(r) ==
    [pc |-> "check", bmp_path |-> r.bmp_path, current_system |-> r.current_system,
     target_format |-> <<>>, new_path |-> NoPath, img |-> 0, logs |-> {},
     io |-> {}, returned |-> r.returned]

Init ==
    /\ plugin_helper = FALSE
    /\ nEvents = 0
    /\ last = NoCall
    /\ threads = <<>>
    /\ projected = {}
    /\ fs = InitialFiles
    /\ clock = 0

\* on_plugin_helper_ready
OnPluginHelperReady ==
    /\ ~plugin_helper
    /\ plugin_helper' = TRUE
    /\ UNCHANGED <<nEvents, last, threads, projected, fs, clock>>

\* A second passes.
Tick ==
    /\ clock < MaxClock
    /\ clock' = clock + 1
    /\ UNCHANGED <<plugin_helper, nEvents, last, threads, projected, fs>>

\* The host dispatches a notification: ScreenshotProjection.process runs to
\* its return on the host's thread, starting the worker thread if the
\* handler gets that far.
Process ==
    /\ nEvents < MaxEvents
    /\ \E content \in Contents, setting \in PathSettings, location \in Locations :
        LET r == ProcessResult(content, plugin_helper, setting, fs, location)
            id == nEvents + 1
        IN  /\ nEvents' = id
            /\ last' = [id |-> id, content |-> content, helper |-> plugin_helper,
                        result |-> r]
            /\ threads' = IF r.start THEN threads @@ (id :> NewThread(r)) ELSE threads
    /\ UNCHANGED <<plugin_helper, projected, fs, clock>>

\* ---------------------------------------------------------------- worker

Digits == <<"0", "1", "2", "3", "4", "5", "6", "7", "8", "9">>

\* datetime.now().strftime("%Y%m%d%H%M%S"), the clock counting the seconds
\* of one minute.
Strftime(seconds) ==
    <<"2", "0", "2", "6", "1", "1", "0", "3", "1", "6", "0", "0">> \o <<Digits[(seconds \div 10) + 1], Digits[(seconds % 10) + 1]>>

\* The name of the converted file.
NewName(current_system, stem, timestamp, target_format) ==
    LET system_name ==
            IF Contains(stem, <<"_">>) THEN SplitLast(stem, <<"_">>) ELSE <<"S", "y", "s", "t", "e", "m">>
        safe_system_name == ReplaceChar(current_system, " ", "_")
    IN  safe_system_name \o <<"_">> \o system_name \o <<"-">> \o timestamp
            \o <<".">> \o target_format

\* new_path = bmp_path.parent / new_name
NewPath(bmp_path, current_system, timestamp, target_format) ==
    JoinPath(Parent(bmp_path),
             NewName(current_system, Stem(bmp_path), timestamp, target_format))

\* The except branch of _convert_screenshot: the exception is logged and, the
\* helper being set, added as a ScreenshotError for the original event.
Fail(id, exc) ==
    /\ threads' = [threads EXCEPT ![id].pc = "done", ![id].logs = @ \cup {"error"}]
    /\ projected' =
           IF plugin_helper
           THEN projected \cup
                    {[orig |-> id,
                      ev |-> ErrorEventWithPath("Screenshot conversion failed: ", exc,
                                 PathStr(threads[id].bmp_path))]}
           ELSE projected

\* if not bmp_path.exists(): log, add a ScreenshotError, return
WorkerCheck(id) ==
    /\ threads[id].pc = "check"
    /\ IF Exists(fs, threads[id].bmp_path)
       THEN /\ threads' = [threads EXCEPT ![id].pc = "name",
                                          ![id].io = @ \cup {"exists"}]
            /\ UNCHANGED projected
       ELSE /\ threads' = [threads EXCEPT ![id].pc = "done",
                                          ![id].io = @ \cup {"exists"},
                                          ![id].logs = @ \cup {"error"}]
            /\ projected' =
                   IF plugin_helper
                   THEN projected \cup
                            {[orig |-> id,
                              ev |-> ErrorEvent("Screenshot file not found: ",
                                         PathStr(threads[id].bmp_path))]}
                   ELSE projected
    /\ UNCHANGED <<plugin_helper, nEvents, last, fs, clock>>

\* The target format is read from the settings, the timestamp from the
\* clock, and the new path is formed.
WorkerName(id) ==
    /\ threads[id].pc = "name"
    /\ \E setting \in FormatSettings :
        LET target_format == Lower(IF Truthy(setting) THEN setting.v ELSE DefaultFormat)
        IN  threads' = [threads EXCEPT
                ![id].pc = "open",
                ![id].target_format = target_format,
                ![id].new_path = NewPath(threads[id].bmp_path,
                                     threads[id].current_system, Strftime(clock),
                                     target_format)]
    /\ UNCHANGED <<plugin_helper, nEvents, last, projected, fs, clock>>

\* Image.open(bmp_path): raises when the file is gone or is no image.
WorkerOpen(id) ==
    /\ threads[id].pc = "open"
    /\ LET p == threads[id].bmp_path
       IN  IF ~IsFile(fs, p)
           THEN Fail(id, <<"F", "i", "l", "e", "N", "o", "t", "F", "o", "u", "n", "d", "E", "r", "r", "o", "r">>)
           ELSE IF fs[PathStr(p)].kind = NotAnImage
           THEN Fail(id, <<"U", "n", "i", "d", "e", "n", "t", "i", "f", "i", "e", "d", "I", "m", "a", "g", "e", "E", "r", "r", "o", "r">>)
           ELSE /\ threads' = [threads EXCEPT ![id].pc = "save",
                                              ![id].io = @ \cup {"open"},
                                              ![id].img = fs[PathStr(p)].img]
                /\ UNCHANGED projected
    /\ UNCHANGED <<plugin_helper, nEvents, last, fs, clock>>

\* A save whose failure also removes the source file.
SaveDiscardingSource(id) ==
    /\ threads[id].pc = "save"
    /\ LET format == Upper(threads[id].target_format)
           new_path == threads[id].new_path
       IN  IF format \notin PILSaveFormats \/ Parent(new_path) \notin Dirs
           THEN /\ Fail(id, <<"O", "S", "E", "r", "r", "o", "r">>)
                /\ fs' = [q \in DOMAIN fs \ {PathStr(threads[id].bmp_path)} |-> fs[q]]
           ELSE /\ fs' = (PathStr(new_path) :>
                             [img |-> threads[id].img, kind |-> format,
                              readonly |-> FALSE]) @@ fs
                /\ threads' = [threads EXCEPT ![id].pc = "unlink",
                                              ![id].io = @ \cup {"write"}]
                /\ UNCHANGED projected
    /\ UNCHANGED <<plugin_helper, nEvents, last, clock>>

\* img.save(new_path, format=target_format.upper(), quality=90), after
\* img.convert("RGB") for jpg (the picture stays the same picture): raises
\* KeyError before creating the file when the format has no save handler,
\* FileNotFoundError when the folder of new_path does not exist; otherwise
\* writes new_path, replacing a file of that name.  The with block then
\* closes the source file.
WorkerSave(id) ==
    /\ threads[id].pc = "save"
    /\ LET format == Upper(threads[id].target_format)
           new_path == threads[id].new_path
       IN  IF format \notin PILSaveFormats
           THEN Fail(id, <<"K", "e", "y", "E", "r", "r", "o", "r">>) /\ UNCHANGED fs
           ELSE IF Parent(new_path) \notin Dirs
           THEN Fail(id, <<"F", "i", "l", "e", "N", "o", "t", "F", "o", "u", "n", "d", "E", "r", "r", "o", "r">>) /\ UNCHANGED fs
           ELSE /\ fs' = (PathStr(new_path) :>
                             [img |-> threads[id].img, kind |-> format,
                              readonly |-> FALSE]) @@ fs
                /\ threads' = [threads EXCEPT ![id].pc = "unlink",
                                              ![id].io = @ \cup {"write"}]
                /\ UNCHANGED projected
    /\ UNCHANGED <<plugin_helper, nEvents, last, clock>>

\* Another thread has the file open (between its Image.open and the end of
\* its with block).
HeldOpen(id, p) ==
    \E other \in DOMAIN threads \ {id} :
        threads[other].pc = "save" /\ threads[other].bmp_path = p

\* The file is removed from disk.
RemoveFile(files, p) == [q \in DOMAIN files \ {PathStr(p)} |-> files[q]]

\* The unlink step leaves the disk alone.
UnlinkSkipped(id) ==
    /\ threads[id].pc = "unlink"
    /\ threads' = [threads EXCEPT ![id].pc = "emit"]
    /\ UNCHANGED <<plugin_helper, nEvents, last, projected, fs, clock>>

\* bmp_path.unlink(missing_ok=True): raises PermissionError on a read-only
\* file; on a file another thread has open it raises (Windows) or removes
\* the name (POSIX).
WorkerUnlink(id) ==
    /\ threads[id].pc = "unlink"
    /\ LET p == threads[id].bmp_path
       IN  \/ /\ IsFile(fs, p)
              /\ fs[PathStr(p)].readonly \/ HeldOpen(id, p)
              /\ Fail(id, <<"P", "e", "r", "m", "i", "s", "s", "i", "o", "n", "E", "r", "r", "o", "r">>)
              /\ UNCHANGED fs
           \/ /\ IsFile(fs, p) => ~fs[PathStr(p)].readonly
              /\ fs' = RemoveFile(fs, p)
              /\ threads' = [threads EXCEPT ![id].pc = "emit",
                                            ![id].io = @ \cup {"unlink"}]
              /\ UNCHANGED projected
    /\ UNCHANGED <<plugin_helper, nEvents, last, clock>>

\* The conversion is logged and, the helper being set, added as a
\* ScreenshotConverted for the original event.
WorkerEmit(id) ==
    /\ threads[id].pc = "emit"
    /\ threads' = [threads EXCEPT ![id].pc = "done", ![id].logs = @ \cup {"info"}]
    /\ projected' =
           IF plugin_helper
           THEN projected \cup
                    {[orig |-> id,
                      ev |-> ConvertedEvent(threads[id].bmp_path, threads[id].new_path,
                                 threads[id].current_system)]}
           ELSE projected
    /\ UNCHANGED <<plugin_helper, nEvents, last, fs, clock>>

Next ==
    \/ OnPluginHelperReady
    \/ Tick
    \/ Process
    \/ \E id \in DOMAIN threads : WorkerCheck(id)
    \/ \E id \in DOMAIN threads : WorkerName(id)
    \/ \E id \in DOMAIN threads : WorkerOpen(id)
    \/ \E id \in DOMAIN threads : WorkerSave(id)
    \/ \E id \in DOMAIN threads : WorkerUnlink(id)
    \/ \E id \in DOMAIN threads : WorkerEmit(id)

Spec == Init /\ [][Next]_vars

\* ---------------------------------------------------------------- claims

IsScreenshot(content) == content.dict /\ content.event = "Screenshot"

Started(id) == id \in DOMAIN threads

\* The notifications derived for event id: those the workers added and, for
\* the latest call, those process returned.
Added(id) == {n \in projected : n.orig = id}

AddedKind(id, kind) == {n \in Added(id) : n.ev.event = kind}

\* No other thread was started for the file of thread id.
AloneOnFile(id) ==
    \A other \in DOMAIN threads \ {id} :
        threads[other].bmp_path # threads[id].bmp_path

\* C1: whenever a worker has emitted ScreenshotConverted, the file named by
\* originalPath is not on disk and the file named by newPath is.
C1_ConvertedMeansReplaced ==
    \A n \in projected :
        n.ev.event = "ScreenshotConverted" =>
            /\ ~IsFile(fs, ParsePath(n.ev.originalPath))
            /\ IsFile(fs, ParsePath(n.ev.newPath))

C1_Witness ==
    \E n \in projected :
        /\ n.ev.event = "ScreenshotConverted"
        /\ n.ev.originalPath = PathStr(File1)
        /\ "unlink" \in threads[n.orig].io

\* The encoding a target_format of the settings schema asks for.
Encoding(target_format) ==
    IF target_format = <<"j", "p", "g">> THEN <<"J", "P", "E", "G">> ELSE Upper(target_format)

\* C2: for the formats png and jpg (png when unset), a worker that has
\* opened a readable bitmap, alone on a writable file in an existing folder,
\* ends with ScreenshotConverted and an output file of the requested
\* encoding and extension.
C2_EveryOfferedFormatConverts ==
    \A id \in DOMAIN threads :
        LET t == threads[id]
        IN  ( /\ t.pc = "done"
              /\ t.img # 0
              /\ AloneOnFile(id)
              /\ ~InitialFiles[PathStr(t.bmp_path)].readonly
              /\ Parent(t.new_path) \in Dirs )
            => /\ AddedKind(id, "ScreenshotConverted") # {}
               /\ AddedKind(id, "ScreenshotError") = {}
               /\ IsFile(fs, t.new_path)
               /\ fs[PathStr(t.new_path)].kind = Encoding(t.target_format)
               /\ SplitLast(PathName(t.new_path), <<".">>) = t.target_format

\* C3 as stated: a notification that is not a Screenshot notification with a
\* usable Filename yields no derived notification, no thread and no file
\* access.
C3_UnusableIgnored ==
    (last.id > 0 /\ ~(IsScreenshot(last.content) /\ Truthy(last.content.Filename)))
    => /\ last.result.returned = <<>>
       /\ ~Started(last.id)
       /\ last.result.io = {}

\* C3 as amended: a notification that is not a Screenshot notification
\* yields no derived notification, no thread, no log entry and no file
\* access; a Screenshot notification without a usable Filename yields no
\* thread and no file access, and exactly one ScreenshotError.
C3_FilterAmended ==
    /\ (last.id > 0 /\ ~IsScreenshot(last.content))
       => /\ last.result.returned = <<>>
          /\ ~Started(last.id)
          /\ last.result.io = {}
          /\ last.result.logs = {}
    /\ (last.id > 0 /\ IsScreenshot(last.content) /\ ~Truthy(last.content.Filename))
       => /\ last.result.returned =
                 <<ErrorEvent("Screenshot event missing Filename", <<>>)>>
          /\ ~Started(last.id)
          /\ last.result.io = {}

C3_Witness ==
    /\ last.id > 0
    /\ plugin_helper
    /\ last.content.dict
    /\ last.content.event = "FSDJump"
    /\ Truthy(last.content.Filename)
    /\ IsFile(fs, NormalizePath(ShotDir, last.content.Filename.v))

\* C4: every failure while handling a Screenshot event is logged and
\* surfaced as a ScreenshotError for that event: by process when no thread
\* was started, by the thread when it ended without ScreenshotConverted.
C4_EveryFailureSurfaced ==
    /\ (last.id > 0 /\ IsScreenshot(last.content) /\ ~Started(last.id))
       => /\ \E i \in 1..Len(last.result.returned) :
                 last.result.returned[i].event = "ScreenshotError"
          /\ last.result.logs \cap {"warn", "error"} # {}
    /\ \A id \in DOMAIN threads :
           (threads[id].pc = "done" /\ AddedKind(id, "ScreenshotConverted") = {})
           => /\ AddedKind(id, "ScreenshotError") # {}
              /\ "error" \in threads[id].logs

\* C5: the converted file is written next to the original, under the name
\* <system, spaces as underscores>_<last part of the stem or System>-<timestamp>.<format>.
C5_WrittenNextToOriginal ==
    \A id \in DOMAIN threads :
        LET t == threads[id]
        IN  t.new_path # NoPath
            => /\ Parent(t.new_path) = Parent(t.bmp_path)
               /\ \E seconds \in 0..MaxClock :
                      PathName(t.new_path) =
                          NewName(t.current_system, Stem(t.bmp_path),
                                  Strftime(seconds), t.target_format)

\* The alias is one of the segments of the raw filename.
HasAliasSegment(raw) ==
    \E i \in 1..Len(ParsePath(raw).parts) : ParsePath(raw).parts[i] = Alias

\* The segments after the last alias segment.
AfterAliasSegment(raw) ==
    LET parts == ParsePath(raw).parts
        i == CHOOSE k \in 1..Len(parts) :
                 parts[k] = Alias /\ \A j \in (k + 1)..Len(parts) : parts[j] # Alias
    IN  SubSeq(parts, i + 1, Len(parts))

\* C6: the configured directory is substituted only when the alias is a
\* whole segment of the filename, which then resolves to <configured
\* directory>/<rest after the alias>; any other filename is used as given;
\* the source path is absolute either way.
C6_AliasSegmentOnly ==
    (last.id > 0 /\ last.result.bmp_path # NoPath)
    => LET raw == ExpandVars(last.content.Filename.v)
           dir == last.result.screenshot_dir
       IN  /\ last.result.bmp_path.root
           /\ last.result.bmp_path =
                  IF HasAliasSegment(raw)
                  THEN Resolve([root |-> dir.root,
                                parts |-> dir.parts \o AfterAliasSegment(raw)])
                  ELSE Resolve(ExpandUser(ParsePath(raw)))

\* C7: handling a Screenshot event starts exactly one thread if and only if
\* the event has a Filename, the helper is set and the resolved file exists
\* at that moment; otherwise it starts none and returns one ScreenshotError.
\* The handler opens, writes and deletes no file and returns while the
\* thread has yet to run.
C7_HandlerStartsOneThread ==
    [][ (nEvents' = nEvents + 1 /\ IsScreenshot(last'.content))
        => LET r == last'.result
               id == last'.id
               ready ==
                   /\ Truthy(last'.content.Filename)
                   /\ plugin_helper
                   /\ r.bmp_path # NoPath
                   /\ Exists(fs, r.bmp_path)
           IN  /\ (id \in DOMAIN threads') <=> ready
               /\ DOMAIN threads' \ DOMAIN threads \subseteq {id}
               /\ ready => threads'[id].pc = "check"
               /\ ~ready => /\ Len(r.returned) = 1
                            /\ r.returned[1].event = "ScreenshotError"
               /\ r.io \cap {"open", "write", "unlink"} = {}
               /\ fs' = fs
      ]_vars

\* The notification a thread ends with when no other thread touches its
\* files.
AloneOutcome(t) ==
    IF /\ InitialFiles[PathStr(t.bmp_path)].kind # NotAnImage
       /\ ~InitialFiles[PathStr(t.bmp_path)].readonly
       /\ Upper(t.target_format) \in PILSaveFormats
       /\ Parent(t.new_path) \in Dirs
    THEN "ScreenshotConverted"
    ELSE "ScreenshotError"

\* C8: two threads started for distinct source files never write the same
\* output path, each output file holds the picture of its own source, and
\* each thread ends with the notification it would end with alone.
C8_WorkersIndependent ==
    \A i \in DOMAIN threads : \A j \in DOMAIN threads \ {i} :
        threads[i].bmp_path # threads[j].bmp_path
        => /\ ("write" \in threads[i].io /\ "write" \in threads[j].io)
              => threads[i].new_path # threads[j].new_path
           /\ ( /\ threads[i].pc = "done"
                /\ threads[j].pc = "done"
                /\ AddedKind(i, "ScreenshotConverted") # {} )
              => fs[PathStr(threads[i].new_path)].img = threads[i].img
           /\ threads[i].pc = "done"
              => {n.ev.event : n \in Added(i)} = {AloneOutcome(threads[i])}

C10_ExactlyOneOutcome ==
    /\ ( /\ last.id > 0
         /\ IsScreenshot(last.content)
         /\ Truthy(last.content.Filename)
         /\ last.helper
         /\ ~Started(last.id) )
       => Len(last.result.returned) + Cardinality(Added(last.id)) = 1
    /\ \A id \in DOMAIN threads :
           /\ Len(threads[id].returned) + Cardinality(Added(id)) <= 1
           /\ threads[id].pc = "done"
              => Len(threads[id].returned) + Cardinality(Added(id)) = 1

====
